---- MODULE Spec2Model ----
(***************************************************************************)
(* Bank statement service: upload_statement -> process_statement ->       *)
(* parse_statement_text, modelled from src/src/routes/statement_routes.py  *)
(* and src/src/services/statement_service.py.                              *)
(*                                                                         *)
(* Representation.  Python str values are TLA+ strings handled character   *)
(* by character (Len, SubSeq, \o).  Python float values are integers that  *)
(* count thousandths (50.00 is 50000, the 0.01 tolerance is 10); float()   *)
(* of a token is computed from its characters.  Category confidences are   *)
(* hundredths.  Wall-clock readings are whole seconds.  A raised exception *)
(* is a record [raised |-> TRUE, ...], None is [ok |-> FALSE, ...].        *)
(***************************************************************************)
EXTENDS Integers, Sequences, FiniteSets, TLC

(***************************************************************************)
(* Bounds                                                                  *)
(***************************************************************************)
\* longest OCR transcript, in lines
MaxLines == 3
\* last wall-clock second a run can observe
MaxClock == 1

(***************************************************************************)
(* Input alphabet                                                          *)
(***************************************************************************)
\* lines an OCR transcript is made of
LinePool ==
  { "TRANSACTION DETAIL",
    "Account Number: 000123456789 December 30, 2023 through January 31, 2024",
    "Beginning Balance $100.00",
    "Beginning Balance $250.00",
    "Ending Balance $5,000.005",
    "01/05 RECURRING ZELLE FROM JOHN $5,000.00 $150.00",
    "01/03 TURO -4,500.00 1.005",
    "01/05 FEE 0.00 100.00",
    "01/04 DEPOSIT $5,993.00 $6,093.00",
    "01/05 BAD DATA LINE X Y",
    "0105 ATM -20.00 80.00" }

None == [none |-> TRUE]

(***************************************************************************)
(* Python str / int / float primitives used by the service                 *)
(***************************************************************************)
Char(s, i) == SubSeq(s, i, i)

SetMin(S) == CHOOSE x \in S : \A y \in S : x <= y

SetMax(S) == CHOOSE x \in S : \A y \in S : x >= y

\* abs(x)
abs(x) == IF x < 0 THEN -x ELSE x

\* `p in s`
Contains(s, p) ==
  \E i \in 1..(Len(s) - Len(p) + 1) : SubSeq(s, i, i + Len(p) - 1) = p

\* s.startswith(p)
startswith(s, p) == Len(s) >= Len(p) /\ SubSeq(s, 1, Len(p)) = p

\* s.endswith(p)
endswith(s, p) == Len(s) >= Len(p) /\ SubSeq(s, Len(s) - Len(p) + 1, Len(s)) = p

IsSpace(c) == c = " "

\* s.strip()
strip(s) ==
  LET idx == {i \in 1..Len(s) : ~IsSpace(Char(s, i))}
  IN  IF idx = {} THEN "" ELSE SubSeq(s, SetMin(idx), SetMax(idx))

RECURSIVE split_from(_, _, _)
split_from(s, i, tok) ==
  IF i > Len(s) THEN (IF tok = "" THEN <<>> ELSE <<tok>>)
  ELSE IF IsSpace(Char(s, i))
       THEN (IF tok = "" THEN <<>> ELSE <<tok>>) \o split_from(s, i + 1, "")
       ELSE split_from(s, i + 1, tok \o Char(s, i))

\* s.split(): the maximal runs of non-whitespace characters
split(s) == split_from(s, 1, "")

RECURSIVE split_on(_, _)
\* s.split(sep) for a non-empty separator
split_on(s, sep) ==
  LET hits == {i \in 1..(Len(s) - Len(sep) + 1) : SubSeq(s, i, i + Len(sep) - 1) = sep}
  IN  IF hits = {} THEN <<s>>
      ELSE LET i == SetMin(hits)
           IN  <<SubSeq(s, 1, i - 1)>> \o split_on(SubSeq(s, i + Len(sep), Len(s)), sep)

RECURSIVE replace(_, _, _)
\* s.replace(old, new), left to right, non-overlapping
replace(s, old, new) ==
  IF Len(s) < Len(old) THEN s
  ELSE IF SubSeq(s, 1, Len(old)) = old
       THEN new \o replace(SubSeq(s, Len(old) + 1, Len(s)), old, new)
       ELSE Char(s, 1) \o replace(SubSeq(s, 2, Len(s)), old, new)

RECURSIVE join(_, _)
\* sep.join(parts)
join(parts, sep) ==
  IF Len(parts) = 0 THEN ""
  ELSE IF Len(parts) = 1 THEN parts[1]
       ELSE parts[1] \o sep \o join(Tail(parts), sep)

UpperLetters == "ABCDEFGHIJKLMNOPQRSTUVWXYZ"

LowerLetters == "abcdefghijklmnopqrstuvwxyz"

LowerChar(c) ==
  IF \E k \in 1..26 : Char(UpperLetters, k) = c
  THEN Char(LowerLetters, CHOOSE k \in 1..26 : Char(UpperLetters, k) = c)
  ELSE c

UpperChar(c) ==
  IF \E k \in 1..26 : Char(LowerLetters, k) = c
  THEN Char(UpperLetters, CHOOSE k \in 1..26 : Char(LowerLetters, k) = c)
  ELSE c

IsLetter(c) == \E k \in 1..26 : Char(UpperLetters, k) = c \/ Char(LowerLetters, k) = c

RECURSIVE lower(_)
\* s.lower()
lower(s) == IF s = "" THEN "" ELSE LowerChar(Char(s, 1)) \o lower(SubSeq(s, 2, Len(s)))

RECURSIVE title_from(_, _)
title_from(s, prevLetter) ==
  IF s = "" THEN ""
  ELSE LET c == Char(s, 1)
       IN  (IF prevLetter THEN LowerChar(c) ELSE UpperChar(c))
             \o title_from(SubSeq(s, 2, Len(s)), IsLetter(c))

\* s.title()
title(s) == title_from(s, FALSE)

DigitChars == "0123456789"

IsDigit(c) == \E d \in 1..10 : Char(DigitChars, d) = c

DigitVal(c) == (CHOOSE d \in 1..10 : Char(DigitChars, d) = c) - 1

\* s.isdigit()
isdigit(s) == s # "" /\ \A i \in 1..Len(s) : IsDigit(Char(s, i))

AllDigits(s) == \A i \in 1..Len(s) : IsDigit(Char(s, i))

RECURSIVE DigitsValue(_)
DigitsValue(s) ==
  IF s = "" THEN 0
  ELSE 10 * DigitsValue(SubSeq(s, 1, Len(s) - 1)) + DigitVal(Char(s, Len(s)))

Unsigned(s) ==
  IF s # "" /\ Char(s, 1) \in {"+", "-"} THEN SubSeq(s, 2, Len(s)) ELSE s

Signum(s) == IF s # "" /\ Char(s, 1) = "-" THEN -1 ELSE 1

\* int(s): [ok |-> FALSE] stands for the ValueError
int(s) ==
  LET u == Unsigned(s)
  IN  IF isdigit(u) THEN [ok |-> TRUE, val |-> Signum(s) * DigitsValue(u)]
      ELSE [ok |-> FALSE, val |-> 0]

\* float(s) for the decimal forms [sign] digits [. digits], in thousandths
\* (digits after the third decimal are dropped); [ok |-> FALSE] stands for
\* the ValueError
float(s) ==
  LET u     == Unsigned(strip(s))
      parts == split_on(u, ".")
      ip    == parts[1]
      fp    == IF Len(parts) = 2 THEN parts[2] ELSE ""
      fp3   == SubSeq(fp \o "000", 1, 3)
  IN  IF /\ Len(parts) <= 2
         /\ AllDigits(ip) /\ AllDigits(fp)
         /\ Len(ip) + Len(fp) >= 1
      THEN [ok |-> TRUE, val |-> Signum(strip(s)) * (1000 * DigitsValue(ip) + DigitsValue(fp3))]
      ELSE [ok |-> FALSE, val |-> 0]

(***************************************************************************)
(* Numbers                                                                 *)
(***************************************************************************)
\* the float n.0, in thousandths
Dollars(n) == 1000 * n

\* the float 0.01
Cent == Dollars(1) \div 100

RECURSIVE sum(_)
\* sum(xs)
sum(xs) == IF Len(xs) = 0 THEN 0 ELSE Head(xs) + sum(Tail(xs))

\* str(n).zfill(2) for 0 <= n <= 99
zfill2(n) == Char(DigitChars, (n \div 10) + 1) \o Char(DigitChars, (n % 10) + 1)

(***************************************************************************)
(* Summary Extractor                                                       *)
(***************************************************************************)
\* StatementService._extract_amount: [ok |-> FALSE] is None
_extract_amount(text) ==
  float(strip(replace(replace(replace(replace(replace(replace(text,
          "Beginning Balance", ""),
          "Ending Balance", ""),
          "Deposits and Additions", ""),
          "Electronic Withdrawals", ""),
          "$", ""),
          ",", "")))

\* what one line is to the loop of extract_summary: the field its label
\* names ("" for none) and what _extract_amount reads from it
summary_entry(raw) ==
  LET line == strip(raw)
  IN  [field |-> IF Contains(line, "Beginning Balance") THEN "Beginning_Balance"
                 ELSE IF Contains(line, "Deposits and Additions") THEN "Deposits_and_Additions"
                 ELSE IF Contains(line, "Electronic Withdrawals") THEN "Electronic_Withdrawals"
                 ELSE IF Contains(line, "Ending Balance") THEN "Ending_Balance"
                 ELSE "",
       amount |-> _extract_amount(line)]

\* summary_entry of every line of the alphabet, evaluated once
summary_entries == [raw \in LinePool |-> summary_entry(raw)]

\* one iteration of the loop of extract_summary
summary_line(summary, raw) ==
  LET e == summary_entries[raw]
  IN  IF e.field # "" /\ e.amount.ok THEN [summary EXCEPT ![e.field] = e.amount.val]
      ELSE summary

RECURSIVE summary_loop(_, _)
summary_loop(summary, lines) ==
  IF Len(lines) = 0 THEN summary
  ELSE summary_loop(summary_line(summary, Head(lines)), Tail(lines))

\* StatementService.extract_summary; `lines` is text.split("\n")
extract_summary(lines) ==
  summary_loop([Beginning_Balance |-> 0, Deposits_and_Additions |-> 0,
                Electronic_Withdrawals |-> 0, Ending_Balance |-> 0], lines)

(***************************************************************************)
(* Categorizer                                                             *)
(***************************************************************************)
\* the ordered category table of _categorize_transaction
categories ==
  << [cat |-> "salary",       keywords |-> <<"jobr payrol", "salary", "paycheck">>],
     [cat |-> "transfer",     keywords |-> <<"transfer", "zelle">>],
     [cat |-> "subscription", keywords |-> <<"premium", "recurring">>],
     [cat |-> "payment",      keywords |-> <<"payment", "pmt">>],
     [cat |-> "car rental",   keywords |-> <<"turo">>],
     [cat |-> "credit card",  keywords |-> <<"applecard", "discover", "american express">>] >>

\* any(keyword in description for keyword in keywords)
AnyKeyword(description, keywords) ==
  \E k \in 1..Len(keywords) : Contains(description, keywords[k])

\* "Deposit" if amount > 0 else "Withdrawal"
transaction_type_of(amount) == IF amount > 0 THEN "Deposit" ELSE "Withdrawal"

category_of(description) ==
  LET d    == lower(description)
      hits == {c \in 1..Len(categories) : AnyKeyword(d, categories[c].keywords)}
  IN  IF hits = {} THEN "Other" ELSE title(categories[SetMin(hits)].cat)

\* StatementService._categorize_transaction: (transaction_type, category)
_categorize_transaction(description, amount) ==
  <<transaction_type_of(amount), category_of(description)>>

\* StatementService._get_category_confidence, in hundredths
_get_category_confidence(description, category) ==
  LET d == lower(description)
  IN  IF category = "Salary" /\ (Contains(d, "payrol") \/ Contains(d, "salary")) THEN 99
      ELSE IF category = "Transfer" /\ (Contains(d, "zelle") \/ Contains(d, "transfer")) THEN 98
      ELSE IF category = "Subscription" /\ Contains(d, "recurring") THEN 95
      ELSE IF category = "Payment" /\ Contains(d, "payment") THEN 95
      ELSE IF category = "Car Rental" /\ Contains(d, "turo") THEN 94
      ELSE 85

(***************************************************************************)
(* Transaction Extractor                                                   *)
(***************************************************************************)
\* StatementService._is_valid_date
_is_valid_date(date_str) ==
  LET parts == IF ~Contains(date_str, "/")
               THEN <<SubSeq(date_str, 1, 2), SubSeq(date_str, 3, Len(date_str))>>
               ELSE split_on(date_str, "/")
  IN  /\ Len(parts) = 2
      /\ int(parts[1]).ok /\ int(parts[2]).ok
      /\ 1 <= int(parts[1]).val /\ int(parts[1]).val <= 12
      /\ 1 <= int(parts[2]).val /\ int(parts[2]).val <= 31

\* parts[-1].replace("$", "").replace(",", "") handed to float()
money(tok) == float(replace(replace(tok, "$", ""), ",", ""))

\* the OCR repairs of extract_transactions, in order
repair(description) ==
  replace(replace(replace(description, "1D:", "ID:"), "Jom", "Jpm"), "Pmt__", "Pmt ")

\* Transaction(...) as built in extract_transactions; the other fields take
\* the model's defaults
NewTransaction(id, date, description, amount, balance) ==
  [id |-> id, Date |-> date, Description |-> description,
   Transaction_Type |-> _categorize_transaction(description, amount)[1],
   Category |-> _categorize_transaction(description, amount)[2],
   Amount |-> amount, Balance |-> balance,
   Category_Confidence |-> 0, Location |-> "", Notes |-> "",
   Flagged |-> [is_high_value |-> FALSE, reason |-> ""]]

\* mutant of try_line: a token float() rejects counts as 0.0 and the line
\* becomes a transaction
try_line_zero_on_error(line) ==
  LET parts == split(line)
      n     == Len(parts)
  IN  IF strip(line) = "Beginning Balance" \/ Contains(line, "$5,993.00")
      THEN [outcome |-> "continue", transaction |-> None]
      ELSE IF n < 4 THEN [outcome |-> "continue", transaction |-> None]
      ELSE IF ~_is_valid_date(parts[1]) THEN [outcome |-> "continue", transaction |-> None]
      ELSE [outcome |-> "append",
            transaction |-> NewTransaction(0, parts[1],
                                           repair(join(SubSeq(parts, 2, n - 2), " ")),
                                           money(parts[n - 1]).val, money(parts[n]).val)]

\* mutant of try_line: the noise literal "$5,993.00" is not looked for
try_line_without_noise_literal(line) ==
  LET parts == split(line)
      n     == Len(parts)
  IN  IF strip(line) = "Beginning Balance"
      THEN [outcome |-> "continue", transaction |-> None]
      ELSE IF n < 4 THEN [outcome |-> "continue", transaction |-> None]
      ELSE IF ~_is_valid_date(parts[1]) THEN [outcome |-> "continue", transaction |-> None]
      ELSE IF ~money(parts[n]).ok \/ ~money(parts[n - 1]).ok
           THEN [outcome |-> "except", transaction |-> None]
      ELSE [outcome |-> "append",
            transaction |-> NewTransaction(0, parts[1],
                                           repair(join(SubSeq(parts, 2, n - 2), " ")),
                                           money(parts[n - 1]).val, money(parts[n]).val)]

\* the try block for one stripped line: "continue" (the line is passed
\* over), "except" (float() raised, a warning is logged) or "append" with
\* the Transaction, its id still to be assigned
try_line(line) ==
  LET parts == split(line)
      n     == Len(parts)
  IN  IF strip(line) = "Beginning Balance" \/ Contains(line, "$5,993.00")
      THEN [outcome |-> "continue", transaction |-> None]
      ELSE IF n < 4 THEN [outcome |-> "continue", transaction |-> None]
      ELSE IF ~_is_valid_date(parts[1]) THEN [outcome |-> "continue", transaction |-> None]
      ELSE IF ~money(parts[n]).ok \/ ~money(parts[n - 1]).ok
           THEN [outcome |-> "except", transaction |-> None]
      ELSE [outcome |-> "append",
            transaction |-> NewTransaction(0, parts[1],
                                           repair(join(SubSeq(parts, 2, n - 2), " ")),
                                           money(parts[n - 1]).val, money(parts[n]).val)]

\* what one line is to the loop of extract_transactions, whatever the loop
\* state: passed over, the section title, an "Ending Balance" line, or a
\* candidate with the outcome of its try block
line_step(raw) ==
  LET line == strip(raw)
  IN  IF line = "" THEN [kind |-> "continue", try |-> None]
      ELSE IF Contains(line, "TRANSACTION DETAIL") THEN [kind |-> "start", try |-> None]
      ELSE IF /\ Contains(line, "DATE") /\ Contains(line, "DESCRIPTION")
              /\ Contains(line, "AMOUNT") /\ Contains(line, "BALANCE")
           THEN [kind |-> "continue", try |-> None]
      ELSE IF startswith(line, "Ending Balance") THEN [kind |-> "ending", try |-> None]
      ELSE [kind |-> "candidate", try |-> try_line(line)]

\* line_step of every line of the alphabet, evaluated once
line_steps == [raw \in LinePool |-> line_step(raw)]

\* mutant of scan_line: transaction_id is incremented before the try block,
\* so a line that fails to parse consumes an id
scan_line_id_per_candidate(st, raw) ==
  LET step == line_steps[raw]
  IN  IF step.kind = "start" THEN [st EXCEPT !.transaction_start = TRUE]
      ELSE IF step.kind = "candidate" /\ st.transaction_start
           THEN IF step.try.outcome = "append"
                THEN [st EXCEPT
                        !.transactions =
                            Append(@, [step.try.transaction EXCEPT !.id = st.transaction_id]),
                        !.transaction_id = @ + 1]
                ELSE [st EXCEPT !.transaction_id = @ + 1]
      ELSE st

\* one iteration of the loop of extract_transactions
scan_line(st, raw) ==
  LET step == line_steps[raw]
  IN  IF step.kind = "start" THEN [st EXCEPT !.transaction_start = TRUE]
      ELSE IF step.kind = "candidate" /\ st.transaction_start
           THEN IF step.try.outcome = "append"
                THEN [st EXCEPT
                        !.transactions =
                            Append(@, [step.try.transaction EXCEPT !.id = st.transaction_id]),
                        !.transaction_id = @ + 1]
                ELSE IF step.try.outcome = "except"
                     THEN [st EXCEPT !.warnings = Append(@, raw)]
                     ELSE st
      ELSE st

RECURSIVE scan(_, _)
scan(st, lines) == IF Len(lines) = 0 THEN st ELSE scan(scan_line(st, Head(lines)), Tail(lines))

\* mutant of scan_text: the loop starts inside the table
scan_text_in_table(lines) ==
  scan([transactions |-> <<>>, transaction_start |-> TRUE, transaction_id |-> 1,
        warnings |-> <<>>], lines)

\* the loop of extract_transactions over text.split("\n")
scan_text(lines) ==
  scan([transactions |-> <<>>, transaction_start |-> FALSE, transaction_id |-> 1,
        warnings |-> <<>>], lines)

\* x.Date.split('/') has the two items the sort key reads
date_key_ok(t) ==
  /\ Len(split_on(t.Date, "/")) >= 2
  /\ int(split_on(t.Date, "/")[1]).ok /\ int(split_on(t.Date, "/")[2]).ok

\* (int(x.Date.split('/')[0]), int(x.Date.split('/')[1]))
date_key(t) == <<int(split_on(t.Date, "/")[1]).val, int(split_on(t.Date, "/")[2]).val>>

\* tuple comparison k1 <= k2
key_le(k1, k2) == k1[1] < k2[1] \/ (k1[1] = k2[1] /\ k1[2] <= k2[2])

RECURSIVE insert_sorted(_, _)
\* t goes after every item whose key is <= its own
insert_sorted(ts, t) ==
  IF Len(ts) = 0 THEN <<t>>
  ELSE IF key_le(date_key(Head(ts)), date_key(t))
       THEN <<Head(ts)>> \o insert_sorted(Tail(ts), t)
       ELSE <<t>> \o ts

RECURSIVE sorted_from(_, _)
sorted_from(acc, ts) ==
  IF Len(ts) = 0 THEN acc ELSE sorted_from(insert_sorted(acc, Head(ts)), Tail(ts))

\* mutant of sorted: the list is returned in parse order
sorted_parse_order(ts) == ts

\* sorted(transactions, key=...): stable
sorted(ts) == sorted_from(<<>>, ts)

\* StatementService.extract_transactions: the returned list, or the
\* exception the sort key raises outside the try block
extract_transactions(lines) ==
  LET ts == scan_text(lines).transactions
  IN  IF \A i \in 1..Len(ts) : date_key_ok(ts[i])
      THEN [raised |-> FALSE, value |-> sorted(ts), error |-> ""]
      ELSE [raised |-> TRUE, value |-> <<>>, error |-> "list index out of range"]

(***************************************************************************)
(* Annotator                                                               *)
(***************************************************************************)
\* StatementService._get_location_from_description
_get_location_from_description(description) ==
  IF Contains(description, "OH") THEN "Ohio, USA" ELSE ""

\* mutant of _get_transaction_notes: every keyword rule comes before the
\* amount rule
_get_transaction_notes_keywords_first(transaction) ==
  LET description == lower(transaction.Description)
      amount      == transaction.Amount
      words       == split(description)
  IN  IF Contains(description, "zelle") THEN "Matched with Zelle transfer description."
      ELSE IF Contains(description, "transfer") /\ Contains(description, "from")
           THEN "Internal transfer to checking account."
      ELSE IF Contains(description, "recurring")
           THEN "Recurring " \o lower(transaction.Category) \o " payment."
      ELSE IF Contains(description, "payrol") THEN "Direct deposit from employer."
      ELSE IF Contains(description, "turo") THEN "Car rental income from Turo."
      ELSE IF Contains(description, "premium")
           THEN "Subscription payment for "
                  \o join(SubSeq(words, 1, IF Len(words) < 2 THEN Len(words) ELSE 2), " ")
                  \o "."
      ELSE IF abs(amount) > Dollars(1000)
           THEN transaction.Category \o " flagged for high amount."
      ELSE ""

\* StatementService._get_transaction_notes
_get_transaction_notes(transaction) ==
  LET description == lower(transaction.Description)
      amount      == transaction.Amount
      words       == split(description)
  IN  IF Contains(description, "zelle") THEN "Matched with Zelle transfer description."
      ELSE IF Contains(description, "transfer") /\ Contains(description, "from")
           THEN "Internal transfer to checking account."
      ELSE IF Contains(description, "recurring")
           THEN "Recurring " \o lower(transaction.Category) \o " payment."
      ELSE IF Contains(description, "payrol") THEN "Direct deposit from employer."
      ELSE IF abs(amount) > Dollars(1000)
           THEN transaction.Category \o " flagged for high amount."
      ELSE IF Contains(description, "turo") THEN "Car rental income from Turo."
      ELSE IF Contains(description, "premium")
           THEN "Subscription payment for "
                  \o join(SubSeq(words, 1, IF Len(words) < 2 THEN Len(words) ELSE 2), " ")
                  \o "."
      ELSE ""

\* mutant of flag: the threshold has a digit too many
flag_above_40000(transaction) ==
  IF abs(transaction.Amount) > Dollars(40000)
  THEN [transaction EXCEPT !.Flagged = [is_high_value |-> TRUE,
                                        reason |-> "Transaction exceeds $4000"]]
  ELSE transaction

\* the loop body of _flag_transactions
flag(transaction) ==
  IF abs(transaction.Amount) > Dollars(4000)
  THEN [transaction EXCEPT !.Flagged = [is_high_value |-> TRUE,
                                        reason |-> "Transaction exceeds $4000"]]
  ELSE transaction

\* StatementService._flag_transactions: the list after the in-place updates
_flag_transactions(transactions) ==
  [i \in 1..Len(transactions) |-> flag(transactions[i])]

\* mutant of enhance: the description is normalised to lower case in place
\* before the notes are derived from it
enhance_lowercased(transaction) ==
  LET located == [transaction EXCEPT
                    !.Description = lower(transaction.Description),
                    !.Location = _get_location_from_description(transaction.Description),
                    !.Category_Confidence =
                        _get_category_confidence(transaction.Description, transaction.Category)]
  IN  [located EXCEPT !.Notes = _get_transaction_notes(located)]

\* the enrichment loop body of parse_statement_text
enhance(transaction) ==
  LET located == [transaction EXCEPT
                    !.Location = _get_location_from_description(transaction.Description),
                    !.Category_Confidence =
                        _get_category_confidence(transaction.Description, transaction.Category)]
  IN  [located EXCEPT !.Notes = _get_transaction_notes(located)]

(***************************************************************************)
(* Aggregator                                                              *)
(***************************************************************************)
\* [t.Amount for t in transactions]
Amounts(transactions) == [i \in 1..Len(transactions) |-> transactions[i].Amount]

RECURSIVE sum_from(_, _, _)
sum_from(transactions, keep, i) ==
  IF i > Len(transactions) THEN 0
  ELSE (IF i \in keep THEN transactions[i].Amount ELSE 0) + sum_from(transactions, keep, i + 1)

\* sum(t.Amount for t in transactions if <condition>), `keep` being the
\* positions that satisfy the condition
sum_amounts(transactions, keep) == sum_from(transactions, keep, 1)

\* positions with t.Amount > 0
deposits(transactions) == {i \in 1..Len(transactions) : transactions[i].Amount > 0}

\* positions with t.Amount < 0
withdrawals(transactions) == {i \in 1..Len(transactions) : transactions[i].Amount < 0}

\* mutant of _analyze_recurring_transactions: the net change takes the
\* withdrawals as magnitudes
_analyze_recurring_transactions_unsigned(transactions) ==
  LET recurring_deposits ==
        sum_amounts(transactions,
          {i \in deposits(transactions) :
              \/ Contains(lower(transactions[i].Description), "recurring")
              \/ Contains(lower(transactions[i].Description), "payrol")})
      total_deposits == sum_amounts(transactions, deposits(transactions))
      recurring_withdrawals ==
        sum_amounts(transactions,
          {i \in withdrawals(transactions) :
              Contains(lower(transactions[i].Description), "recurring")})
      total_withdrawals == sum_amounts(transactions, withdrawals(transactions))
  IN  [Recurring_Deposits |-> recurring_deposits,
       One_Off_Deposits |-> total_deposits - recurring_deposits,
       Total_Deposits |-> total_deposits,
       Recurring_Withdrawals |-> recurring_withdrawals,
       Irregular_Withdrawals |-> total_withdrawals - recurring_withdrawals,
       Total_Withdrawals |-> total_withdrawals,
       Net_Change |-> total_deposits - total_withdrawals]

\* StatementService._analyze_recurring_transactions
_analyze_recurring_transactions(transactions) ==
  LET recurring_deposits ==
        sum_amounts(transactions,
          {i \in deposits(transactions) :
              \/ Contains(lower(transactions[i].Description), "recurring")
              \/ Contains(lower(transactions[i].Description), "payrol")})
      total_deposits == sum_amounts(transactions, deposits(transactions))
      recurring_withdrawals ==
        sum_amounts(transactions,
          {i \in withdrawals(transactions) :
              Contains(lower(transactions[i].Description), "recurring")})
      total_withdrawals == sum_amounts(transactions, withdrawals(transactions))
  IN  [Recurring_Deposits |-> recurring_deposits,
       One_Off_Deposits |-> total_deposits - recurring_deposits,
       Total_Deposits |-> total_deposits,
       Recurring_Withdrawals |-> recurring_withdrawals,
       Irregular_Withdrawals |-> total_withdrawals - recurring_withdrawals,
       Total_Withdrawals |-> total_withdrawals,
       Net_Change |-> total_deposits + total_withdrawals]

\* max(transactions, key=lambda x: abs(x.Amount)): the first of the largest
largest_of(transactions) ==
  transactions[SetMin({i \in 1..Len(transactions) :
                         \A j \in 1..Len(transactions) :
                            abs(transactions[j].Amount) <= abs(transactions[i].Amount)})]

\* StatementService._calculate_spending_analysis; max() of an empty list
\* raises inside the try block, which re-raises ValueError; the average is
\* the quotient num / den
_calculate_spending_analysis(transactions) ==
  IF Len(transactions) = 0
  THEN [raised |-> TRUE, value |-> <<>>,
        error |-> "Failed to calculate spending analysis: max() arg is an empty sequence"]
  ELSE [raised |-> FALSE, error |-> "",
        value |->
          [total_spent_on_subscriptions |->
               sum_amounts(transactions,
                 {i \in withdrawals(transactions) : transactions[i].Category = "Subscription"}),
           largest_transaction |->
               [Description |-> split(largest_of(transactions).Description)[1],
                Amount |-> largest_of(transactions).Amount,
                Date |-> largest_of(transactions).Date],
           average_daily_spending |->
               IF withdrawals(transactions) # {}
               THEN [num |-> -sum_amounts(transactions, withdrawals(transactions)), den |-> 30]
               ELSE [num |-> 0, den |-> 1]]]

(***************************************************************************)
(* Reconciler                                                              *)
(***************************************************************************)
\* mutant of _validate_balances: no tolerance, the balances must be equal
_validate_balances_exact(beginning_balance, ending_balance, transactions) ==
  IF beginning_balance + sum(Amounts(transactions)) = ending_balance
  THEN "Reconciled" ELSE "Unreconciled"

\* StatementService._validate_balances
_validate_balances(beginning_balance, ending_balance, transactions) ==
  LET calculated_ending == beginning_balance + sum(Amounts(transactions))
  IN  IF abs(calculated_ending - ending_balance) < Cent THEN "Reconciled" ELSE "Unreconciled"

\* StatementService._get_date_range; `year` is datetime.now().year and the
\* f-string is its six fields
_get_date_range(transactions, year) ==
  IF Len(transactions) = 0 THEN <<>>
  ELSE LET dates == {date_key(transactions[i]) : i \in 1..Len(transactions)}
           lo    == CHOOSE d \in dates : \A e \in dates : key_le(d, e)
           hi    == CHOOSE d \in dates : \A e \in dates : key_le(e, d)
       IN  <<year, lo[1], lo[2], year, hi[1], hi[2]>>

(***************************************************************************)
(* Metadata Extractor                                                      *)
(***************************************************************************)
RECURSIVE digit_run(_, _)
\* the longest run of digits of s that starts at position i
digit_run(s, i) ==
  IF i <= Len(s) /\ IsDigit(Char(s, i)) THEN Char(s, i) \o digit_run(s, i + 1) ELSE ""

RECURSIVE skip_spaces(_, _)
\* where \s* stops when it starts at position i
skip_spaces(s, i) ==
  IF i <= Len(s) /\ IsSpace(Char(s, i)) THEN skip_spaces(s, i + 1) ELSE i

\* re.search(label + r'\s*(\d+)', line): group 1, or None
search_labelled(line, label) ==
  LET hits == {i \in 1..(Len(line) - Len(label) + 1) :
                 /\ SubSeq(line, i, i + Len(label) - 1) = label
                 /\ digit_run(line, skip_spaces(line, i + Len(label))) # ""}
  IN  IF hits = {} THEN [ok |-> FALSE, val |-> ""]
      ELSE [ok |-> TRUE,
            val |-> digit_run(line, skip_spaces(line, SetMin(hits) + Len(label)))]

\* re.search(r'(\d{12})', line)
search_12_digits(line) ==
  LET hits == {i \in 1..Len(line) : Len(digit_run(line, i)) >= 12}
  IN  IF hits = {} THEN [ok |-> FALSE, val |-> ""]
      ELSE [ok |-> TRUE, val |-> SubSeq(line, SetMin(hits), SetMin(hits) + 11)]

\* re.search(r'(\d{9,})', line)
search_9_digits(line) ==
  LET hits == {i \in 1..Len(line) : Len(digit_run(line, i)) >= 9}
  IN  IF hits = {} THEN [ok |-> FALSE, val |-> ""]
      ELSE [ok |-> TRUE, val |-> digit_run(line, SetMin(hits))]

\* the ordered patterns of _extract_statement_metadata, first match wins
account_number_of(line) ==
  IF search_labelled(line, "Account Number:").ok THEN search_labelled(line, "Account Number:")
  ELSE IF search_labelled(line, "Account Number").ok THEN search_labelled(line, "Account Number")
  ELSE IF search_12_digits(line).ok THEN search_12_digits(line)
  ELSE search_9_digits(line)

month_names ==
  << "January", "February", "March", "April", "May", "June", "July", "August",
     "September", "October", "November", "December" >>

\* the statement-period branch for one line: the month and year it sets
period_of(line) ==
  LET end_date == strip(split_on(line, "through")[2])
      hits     == {m \in 1..12 : Contains(end_date, month_names[m])}
      pieces   == split_on(end_date, ", ")
      last     == strip(pieces[Len(pieces)])
      year_match == SubSeq(last, 1, IF Len(last) < 4 THEN Len(last) ELSE 4)
  IN  [month_found |-> hits # {},
       month |-> IF hits = {} THEN "" ELSE zfill2(SetMin(hits)),
       year_found |-> hits # {} /\ isdigit(year_match),
       year |-> year_match]

\* what one line is to the loop of _extract_statement_metadata
metadata_entry(raw) ==
  LET line == strip(raw)
  IN  [account |-> IF Contains(line, "Account Number") THEN account_number_of(line)
                   ELSE [ok |-> FALSE, val |-> ""],
       period |-> IF Contains(line, "through")
                     /\ \E m \in 1..12 : Contains(line, month_names[m])
                  THEN period_of(line)
                  ELSE [month_found |-> FALSE, month |-> "", year_found |-> FALSE, year |-> ""]]

\* metadata_entry of every line of the alphabet, evaluated once
metadata_entries == [raw \in LinePool |-> metadata_entry(raw)]

\* one iteration of the loop of _extract_statement_metadata
metadata_line(metadata, raw) ==
  LET e == metadata_entries[raw]
  IN  [metadata EXCEPT
         !.account_number = IF e.account.ok THEN e.account.val ELSE @,
         !.month = IF e.period.month_found THEN e.period.month ELSE @,
         !.year = IF e.period.year_found THEN e.period.year ELSE @]

RECURSIVE metadata_loop(_, _)
metadata_loop(metadata, lines) ==
  IF Len(lines) = 0 THEN metadata
  ELSE metadata_loop(metadata_line(metadata, Head(lines)), Tail(lines))

\* StatementService._extract_statement_metadata
_extract_statement_metadata(lines) ==
  metadata_loop([bank_name |-> "chasebank", account_number |-> "",
                 year |-> "", month |-> ""], lines)

\* StatementService._calculate_file_hash: SHA-256 is a function of the bytes
_calculate_file_hash(content) == <<"sha256", content>>

(***************************************************************************)
(* Inputs                                                                  *)
(***************************************************************************)
\* text.split("\n") of the transcripts: up to MaxLines lines (the empty
\* line that ends a transcript is left out: every loop skips it)
Texts == UNION {[1..n -> LinePool] : n \in 0..MaxLines}

\* file names of an upload
Filenames == {"statement.pdf", "notes.txt"}

\* file contents of an upload
Contents == {"", "%PDF"}

(***************************************************************************)
(* State                                                                   *)
(***************************************************************************)
VARIABLES
  pc,                \* where the request is in upload_statement / process_statement
  request,           \* the upload: [filename, content]
  now,               \* wall clock, seconds
  year,              \* calendar year of the wall clock
  start_time,        \* process_statement: start_time
  extracted_text,    \* process_statement: extracted_text, as its lines
  output_path,       \* process_statement: output_path
  metadata,          \* parse_statement_text: metadata
  summary,           \* parse_statement_text: summary
  transactions,      \* parse_statement_text: transactions
  totals,            \* parse_statement_text: totals
  spending_analysis, \* parse_statement_text: spending_analysis
  statement_data,    \* what parse_statement_text returned
  raised,            \* what parse_statement_text raised
  storage,           \* files written by _save_statement_json
  response,          \* what upload_statement answered
  first_run          \* StatementData of an earlier run on the same input

vars == <<pc, request, now, year, start_time, extracted_text, output_path, metadata,
          summary, transactions, totals, spending_analysis, statement_data, raised,
          storage, response, first_run>>

locals == <<metadata, summary, transactions, totals, spending_analysis>>

Init ==
  /\ pc = "idle"
  /\ request = None
  /\ now = 0
  /\ year = 2024
  /\ start_time = 0
  /\ extracted_text = <<>>
  /\ output_path = <<>>
  /\ metadata = None
  /\ summary = None
  /\ transactions = <<>>
  /\ totals = None
  /\ spending_analysis = None
  /\ statement_data = None
  /\ raised = None
  /\ storage = {}
  /\ response = None
  /\ first_run = None

(***************************************************************************)
(* Transport layer: upload_statement                                       *)
(***************************************************************************)
\* str(e) of an HTTPException
http_str(status_code, detail) ==
  (IF status_code = 400 THEN "400" ELSE "500") \o ": " \o detail

\* raise HTTPException(status_code, detail) inside the try block of
\* upload_statement: HTTPException is no ValueError, so `except Exception`
\* answers
caught_by_upload(status_code, detail) ==
  [status_code |-> 500,
   detail |-> "Error processing statement: " \o http_str(status_code, detail)]

\* an exception inside process_statement: its handler raises
\* HTTPException(500), which upload_statement catches in turn
process_failed(message) ==
  caught_by_upload(500, "Failed to process statement: " \o message)

upload_statement ==
  /\ pc = "idle"
  /\ \E filename \in Filenames, content \in Contents :
       /\ request' = [filename |-> filename, content |-> content]
       /\ IF ~endswith(filename, ".pdf")
          THEN /\ response' = [status_code |-> 400, detail |-> "Only PDF files are supported"]
               /\ pc' = "responded"
          ELSE IF Len(content) = 0
          THEN /\ response' = caught_by_upload(400, "The uploaded file is empty")
               /\ pc' = "responded"
          ELSE /\ response' = response
               /\ pc' = "process_statement"
  /\ UNCHANGED <<now, year, start_time, extracted_text, output_path, locals,
                 statement_data, raised, storage, first_run>>

(***************************************************************************)
(* process_statement, up to the call of parse_statement_text               *)
(***************************************************************************)
\* start_time = time.time()
process_statement ==
  /\ pc = "process_statement"
  /\ start_time' = now
  /\ pc' = "convert_pdf_to_images"
  /\ UNCHANGED <<request, now, year, extracted_text, output_path, locals,
                 statement_data, raised, storage, response, first_run>>

\* the rasterizer returns the page images or raises
convert_pdf_to_images ==
  /\ pc = "convert_pdf_to_images"
  /\ \/ /\ pc' = "extract_text_from_images"
        /\ response' = response
     \/ /\ pc' = "responded"
        /\ response' = process_failed("Failed to convert PDF to images: rasterizer")
  /\ UNCHANGED <<request, now, year, start_time, extracted_text, output_path, locals,
                 statement_data, raised, storage, first_run>>

\* the OCR engine returns the transcript or raises
extract_text_from_images ==
  /\ pc = "extract_text_from_images"
  /\ \/ /\ \E text \in Texts : extracted_text' = text
        /\ pc' = "_create_output_path"
        /\ response' = response
     \/ /\ extracted_text' = extracted_text
        /\ pc' = "responded"
        /\ response' = process_failed("Failed to extract text from images: ocr")
  /\ UNCHANGED <<request, now, year, start_time, output_path, locals,
                 statement_data, raised, storage, first_run>>

\* metadata = _extract_statement_metadata(extracted_text);
\* output_path = _create_output_path(metadata): the joined components, or
\* makedirs raises
_create_output_path ==
  /\ pc = "_create_output_path"
  /\ LET m == _extract_statement_metadata(extracted_text)
     IN  \/ /\ output_path' = <<"/output", m.bank_name, m.account_number, m.year, m.month>>
            /\ pc' = "parse_statement_text"
            /\ response' = response
         \/ /\ output_path' = output_path
            /\ pc' = "responded"
            /\ response' = process_failed("Failed to create output path: makedirs")
  /\ UNCHANGED <<request, now, year, start_time, extracted_text, locals,
                 statement_data, raised, storage, first_run>>

(***************************************************************************)
(* parse_statement_text, stage by stage                                    *)
(***************************************************************************)
\* mutant of parse_failed: the exception is logged and the request is
\* answered as a success
parse_failed_swallowed(message) ==
  /\ raised' = [type |-> "ValueError",
                message |-> "Failed to parse statement text: " \o message]
  /\ statement_data' = None
  /\ response' = [status |-> "success", data |-> None, file_path |-> output_path]
  /\ pc' = "responded"

\* an exception inside the try block of parse_statement_text: it raises
\* ValueError, process_statement gets no StatementData and answers 500
parse_failed(message) ==
  /\ raised' = [type |-> "ValueError",
                message |-> "Failed to parse statement text: " \o message]
  /\ statement_data' = None
  /\ response' = process_failed("Failed to parse statement text: " \o message)
  /\ pc' = "responded"

\* metadata = _extract_statement_metadata(text); end_time = time.time();
\* parsed_on, processing_duration and timezone are stamped
parse_statement_text ==
  /\ pc = "parse_statement_text"
  /\ LET m == _extract_statement_metadata(extracted_text)
     IN  metadata' = [bank_name |-> m.bank_name, account_number |-> m.account_number,
                      year |-> m.year, month |-> m.month,
                      parsed_on |-> now,
                      processing_duration |-> now - start_time,
                      timezone |-> "UTC"]
  /\ pc' = "extract_summary"
  /\ UNCHANGED <<request, now, year, start_time, extracted_text, output_path, summary,
                 transactions, totals, spending_analysis, statement_data, raised,
                 storage, response, first_run>>

\* summary = self.extract_summary(text)
stage_extract_summary ==
  /\ pc = "extract_summary"
  /\ summary' = extract_summary(extracted_text)
  /\ pc' = "extract_transactions"
  /\ UNCHANGED <<request, now, year, start_time, extracted_text, output_path, metadata,
                 transactions, totals, spending_analysis, statement_data, raised,
                 storage, response, first_run>>

\* transactions = self.extract_transactions(text)
stage_extract_transactions ==
  /\ pc = "extract_transactions"
  /\ LET r == extract_transactions(extracted_text)
     IN  IF r.raised
         THEN /\ parse_failed(r.error)
              /\ transactions' = transactions
         ELSE /\ transactions' = r.value
              /\ pc' = "_flag_transactions"
              /\ UNCHANGED <<statement_data, raised, response>>
  /\ UNCHANGED <<request, now, year, start_time, extracted_text, output_path, metadata,
                 summary, totals, spending_analysis, storage, first_run>>

\* self._flag_transactions(transactions)
stage_flag_transactions ==
  /\ pc = "_flag_transactions"
  /\ transactions' = _flag_transactions(transactions)
  /\ pc' = "_analyze_recurring_transactions"
  /\ UNCHANGED <<request, now, year, start_time, extracted_text, output_path, metadata,
                 summary, totals, spending_analysis, statement_data, raised,
                 storage, response, first_run>>

\* totals = TotalTransactions(**self._analyze_recurring_transactions(...))
stage_analyze_recurring_transactions ==
  /\ pc = "_analyze_recurring_transactions"
  /\ totals' = _analyze_recurring_transactions(transactions)
  /\ pc' = "_calculate_spending_analysis"
  /\ UNCHANGED <<request, now, year, start_time, extracted_text, output_path, metadata,
                 summary, transactions, spending_analysis, statement_data, raised,
                 storage, response, first_run>>

\* spending_analysis = self._calculate_spending_analysis(transactions)
stage_calculate_spending_analysis ==
  /\ pc = "_calculate_spending_analysis"
  /\ LET r == _calculate_spending_analysis(transactions)
     IN  IF r.raised
         THEN /\ parse_failed(r.error)
              /\ spending_analysis' = spending_analysis
         ELSE /\ spending_analysis' = r.value
              /\ pc' = "enhance"
              /\ UNCHANGED <<statement_data, raised, response>>
  /\ UNCHANGED <<request, now, year, start_time, extracted_text, output_path, metadata,
                 summary, transactions, totals, storage, first_run>>

\* the loop that sets Location, Category_Confidence and Notes
stage_enhance ==
  /\ pc = "enhance"
  /\ transactions' = [i \in 1..Len(transactions) |-> enhance(transactions[i])]
  /\ pc' = "_validate_balances"
  /\ UNCHANGED <<request, now, year, start_time, extracted_text, output_path, metadata,
                 summary, totals, spending_analysis, statement_data, raised,
                 storage, response, first_run>>

\* ValidationDetails(...) as built in parse_statement_text
validation_details_of(validation_status, s, t, ts, current_year) ==
  [balances_match |-> (validation_status = "Reconciled"),
   all_transactions_processed |-> TRUE,
   date_range_covered |-> _get_date_range(ts, current_year),
   missing_transactions |-> <<>>,
   rounding_differences |-> abs(s.Ending_Balance - (s.Beginning_Balance + t.Net_Change))]

\* validation_status = self._validate_balances(...); validation_details;
\* both go into metadata
stage_validate_balances ==
  /\ pc = "_validate_balances"
  /\ LET validation_status ==
           _validate_balances(summary.Beginning_Balance, summary.Ending_Balance, transactions)
     IN  metadata' =
           [bank_name |-> metadata.bank_name, account_number |-> metadata.account_number,
            year |-> metadata.year, month |-> metadata.month,
            parsed_on |-> metadata.parsed_on,
            processing_duration |-> metadata.processing_duration,
            timezone |-> metadata.timezone,
            validation_status |-> validation_status,
            validation_details |->
                validation_details_of(validation_status, summary, totals, transactions, year)]
  /\ pc' = "StatementData"
  /\ UNCHANGED <<request, now, year, start_time, extracted_text, output_path, summary,
                 transactions, totals, spending_analysis, statement_data, raised,
                 storage, response, first_run>>

\* mutant of StatementMetadata: every call draws a session id of its own
StatementMetadata_fresh_session(m) ==
  [bank_name |-> m.bank_name, account_number |-> m.account_number,
   account_holder |-> "Anan Almasri", year |-> m.year, month |-> m.month,
   currency |-> "USD", parsed_by |-> "BankStatementParser v1.0",
   parsed_on |-> m.parsed_on, processing_duration |-> m.processing_duration,
   timezone |-> m.timezone, validation_status |-> m.validation_status,
   validation_details |-> m.validation_details,
   session_metadata |-> [user_id |-> "user_12345", session_id |-> <<"session", now>>]]

\* StatementMetadata(**metadata): the model's defaults fill the other fields
StatementMetadata(m) ==
  [bank_name |-> m.bank_name, account_number |-> m.account_number,
   account_holder |-> "Anan Almasri", year |-> m.year, month |-> m.month,
   currency |-> "USD", parsed_by |-> "BankStatementParser v1.0",
   parsed_on |-> m.parsed_on, processing_duration |-> m.processing_duration,
   timezone |-> m.timezone, validation_status |-> m.validation_status,
   validation_details |-> m.validation_details,
   session_metadata |-> [user_id |-> "user_12345", session_id |-> "session_67890"]]

\* return StatementData(...)
stage_StatementData ==
  /\ pc = "StatementData"
  /\ statement_data' =
       [metadata |-> StatementMetadata(metadata),
        file_metadata |-> [file_name |-> "statement.pdf", file_size |-> "0KB",
                           file_hash |-> _calculate_file_hash(request.content)],
        Total_Transactions |-> totals,
        Checking_Summary |-> summary,
        Transaction_Detail |-> transactions,
        spending_analysis |-> spending_analysis,
        error_tracking |-> [unprocessed_sections |-> <<>>, parsing_errors |-> <<>>]]
  /\ pc' = "_save_statement_json"
  /\ UNCHANGED <<request, now, year, start_time, extracted_text, output_path, locals,
                 raised, storage, response, first_run>>

(***************************************************************************)
(* process_statement, after parse_statement_text returned                  *)
(***************************************************************************)
\* f"{n / 1024:.0f}": n / 1024 rounded to the nearest integer, ties to even
kilobytes(n) ==
  LET q == n \div 1024
      r == n % 1024
  IN  IF r > 512 \/ (r = 512 /\ q % 2 = 1) THEN q + 1 ELSE q

\* file_name and file_size are updated, _save_statement_json writes the
\* file (or raises) and the StatementResponse is returned
_save_statement_json ==
  /\ pc = "_save_statement_json"
  /\ LET data == [statement_data EXCEPT
                    !.file_metadata.file_name = "statement.pdf",
                    !.file_metadata.file_size = <<kilobytes(Len(request.content)), "KB">>]
         file_path == Append(output_path,
                             <<"statement", data.Checking_Summary.Beginning_Balance,
                               data.Checking_Summary.Ending_Balance, ".json">>)
     IN  \/ /\ statement_data' = data
            /\ storage' = storage \cup {[path |-> file_path, data |-> data]}
            /\ response' = [status |-> "success", data |-> data, file_path |-> file_path]
         \/ /\ statement_data' = data
            /\ storage' = storage
            /\ response' = process_failed("Failed to save statement JSON: open")
  /\ pc' = "responded"
  /\ UNCHANGED <<request, now, year, start_time, extracted_text, output_path, locals,
                 raised, first_run>>

(***************************************************************************)
(* Environment                                                             *)
(***************************************************************************)
\* a second of wall-clock time passes while a request is being served; the
\* calendar year may turn with it.  The clock counts from the arrival of the
\* request, and a second that passes elsewhere is taken just before the next
\* reading of the clock: end_time and parsed_on in parse_statement_text, the
\* year in _get_date_range
Tick ==
  /\ pc \in {"parse_statement_text", "_validate_balances"}
  /\ now < MaxClock
  /\ now' = now + 1
  /\ year' \in {year, year + 1}
  /\ UNCHANGED <<pc, request, start_time, extracted_text, output_path, locals,
                 statement_data, raised, storage, response, first_run>>

\* parse_statement_text is called again with the same text, start_time and
\* file_content; the StatementData of the first call is kept for comparison
Rerun ==
  /\ pc = "_save_statement_json"
  /\ first_run = None
  /\ first_run' = statement_data
  /\ statement_data' = None
  /\ metadata' = None
  /\ summary' = None
  /\ transactions' = <<>>
  /\ totals' = None
  /\ spending_analysis' = None
  /\ pc' = "parse_statement_text"
  /\ UNCHANGED <<request, now, year, start_time, extracted_text, output_path, raised,
                 storage, response>>

Next ==
  \/ upload_statement
  \/ process_statement
  \/ convert_pdf_to_images
  \/ extract_text_from_images
  \/ _create_output_path
  \/ parse_statement_text
  \/ stage_extract_summary
  \/ stage_extract_transactions
  \/ stage_flag_transactions
  \/ stage_analyze_recurring_transactions
  \/ stage_calculate_spending_analysis
  \/ stage_enhance
  \/ stage_validate_balances
  \/ stage_StatementData
  \/ _save_statement_json
  \/ Tick

Spec == Init /\ [][Next]_vars

\* the service with a repeated call of parse_statement_text
NextRerun == Next \/ Rerun

SpecRerun == Init /\ [][NextRerun]_vars

(***************************************************************************)
(* Properties                                                              *)
(***************************************************************************)
\* parse_statement_text has returned a StatementData
Returned == statement_data # None

\* extract_transactions has just returned its list
Extracted == pc = "_flag_transactions"

\* C1: in every returned result each transaction's type matches the sign of
\* its amount: "Deposit" iff Amount > 0 and "Withdrawal" iff Amount < 0.
C1_SignMatchesType ==
  Returned =>
    \A i \in 1..Len(statement_data.Transaction_Detail) :
      LET t == statement_data.Transaction_Detail[i]
      IN  /\ (t.Transaction_Type = "Deposit") <=> (t.Amount > 0)
          /\ (t.Transaction_Type = "Withdrawal") <=> (t.Amount < 0)

\* C2: whenever extract_transactions returns, the list it returns (and so
\* Transaction_Detail of the result) is in non-decreasing order of the
\* (month, day) pair read from Date.
C2_SortedByMonthDay ==
  /\ Extracted =>
       \A i \in 1..(Len(transactions) - 1) :
          key_le(date_key(transactions[i]), date_key(transactions[i + 1]))
  /\ Returned =>
       \A i \in 1..(Len(statement_data.Transaction_Detail) - 1) :
          key_le(date_key(statement_data.Transaction_Detail[i]),
                 date_key(statement_data.Transaction_Detail[i + 1]))

\* C2 witness: two transactions were returned in the reverse of their parse
\* order, the later line having the earlier date.
C2_Witness ==
  /\ Returned
  /\ Len(statement_data.Transaction_Detail) >= 2
  /\ statement_data.Transaction_Detail[1].id > statement_data.Transaction_Detail[2].id
  /\ date_key(statement_data.Transaction_Detail[1])
       # date_key(statement_data.Transaction_Detail[2])

\* B + sum(a_i) - E of a result
Imbalance(data) ==
  data.Checking_Summary.Beginning_Balance + sum(Amounts(data.Transaction_Detail))
    - data.Checking_Summary.Ending_Balance

\* C3: in every returned result balances_match is true iff
\* |B + sum(a_i) - E| < 0.01, and validation_status is "Reconciled" exactly
\* when balances_match is true and "Unreconciled" otherwise.
C3_ReconciliationLaw ==
  Returned =>
    LET v == statement_data.metadata
    IN  /\ v.validation_details.balances_match <=> (abs(Imbalance(statement_data)) < Cent)
        /\ v.validation_status =
             IF v.validation_details.balances_match THEN "Reconciled" ELSE "Unreconciled"

\* C3 witness: a result that reconciles within the tolerance although the
\* balances differ.
C3_Witness ==
  /\ Returned
  /\ statement_data.metadata.validation_status = "Reconciled"
  /\ Imbalance(statement_data) # 0

\* the spending analysis has been attempted on an empty transaction list
EmptyListAnalysed ==
  /\ totals # None
  /\ Len(transactions) = 0
  /\ pc # "_calculate_spending_analysis"

\* C4: when the transaction list is empty the spending analysis completes
\* without raising, with average_daily_spending 0.0 and
\* total_spent_on_subscriptions 0.0, and the pipeline returns a result.
C4_EmptyListIsValid ==
  EmptyListAnalysed =>
    /\ raised = None
    /\ spending_analysis # None
    /\ spending_analysis.average_daily_spending.num = 0
    /\ spending_analysis.total_spent_on_subscriptions = 0
    /\ (pc = "responded" => Returned)

\* a line with at least 4 tokens and a valid date first whose amount or
\* balance token float() rejects
IsBadLine(raw) ==
  LET parts == split(strip(raw))
  IN  /\ Len(parts) >= 4
      /\ _is_valid_date(parts[1])
      /\ ~money(parts[Len(parts)]).ok \/ ~money(parts[Len(parts) - 1]).ok

\* the lines of the alphabet that are such lines
BadLines == {raw \in LinePool : IsBadLine(raw)}

\* line k of the text comes after a "TRANSACTION DETAIL" line
InTable(text, k) == \E j \in 1..(k - 1) : Contains(text[j], "TRANSACTION DETAIL")

\* the text without its line k
WithoutLine(text, k) == SubSeq(text, 1, k - 1) \o SubSeq(text, k + 1, Len(text))

\* the in-table bad lines of the text
BadPositions(text) == {k \in 1..Len(text) : text[k] \in BadLines /\ InTable(text, k)}

SecondReturned == first_run # None /\ pc = "_save_statement_json"

\* C6: two runs of parse_statement_text on the same text, file bytes and
\* start_time give results equal in every field except
\* metadata.processing_duration.
C6_Idempotent ==
  SecondReturned =>
    [statement_data EXCEPT !.metadata.processing_duration = 0]
      = [first_run EXCEPT !.metadata.processing_duration = 0]

\* a result without what it reads from the wall clock: processing_duration,
\* parsed_on and the year written into date_range_covered
WithoutClock(data) ==
  LET range == data.metadata.validation_details.date_range_covered
  IN  [data EXCEPT
         !.metadata.processing_duration = 0,
         !.metadata.parsed_on = 0,
         !.metadata.validation_details.date_range_covered =
             IF range = <<>> THEN <<>> ELSE <<0, range[2], range[3], 0, range[5], range[6]>>]

\* C6 (amended): the two results are equal in every field except
\* metadata.processing_duration, metadata.parsed_on and the year written
\* into validation_details.date_range_covered.
C6_IdempotentButClock ==
  SecondReturned => WithoutClock(statement_data) = WithoutClock(first_run)

\* C6 witness: the second run returned at a later second of a later year.
C6_Witness ==
  /\ SecondReturned
  /\ statement_data.metadata.parsed_on # first_run.metadata.parsed_on
  /\ statement_data.metadata.validation_details.date_range_covered
       # first_run.metadata.validation_details.date_range_covered

\* the message of the exception the failed stage raised
StageMessage ==
  IF totals = None THEN extract_transactions(extracted_text).error
  ELSE _calculate_spending_analysis(transactions).error

\* C7: if a stage of parse_statement_text raises, parse_statement_text
\* returns no StatementData and raises one ValueError carrying the stage's
\* message; nothing is saved and no "success" response is produced.
C7_NoPartialResult ==
  raised # None =>
    /\ statement_data = None
    /\ raised.type = "ValueError"
    /\ StageMessage # ""
    /\ raised.message = "Failed to parse statement text: " \o StageMessage
    /\ storage = {}
    /\ pc = "responded"
    /\ "status" \notin DOMAIN response
    /\ response.status_code = 500
    /\ Contains(response.detail, StageMessage)

\* C7 witness: the spending analysis raised after the earlier stages had
\* filled summary and totals.
C7_Witness ==
  /\ raised # None
  /\ summary # None
  /\ totals # None
  /\ pc = "responded"

RECURSIVE yielding_from(_, _, _)
\* the positions, from k on, of the lines that become transactions
yielding_from(text, k, started) ==
  IF k > Len(text) THEN <<>>
  ELSE LET step == line_steps[text[k]]
       IN  (IF started /\ step.kind = "candidate" /\ step.try.outcome = "append"
            THEN <<k>> ELSE <<>>)
             \o yielding_from(text, k + 1, started \/ step.kind = "start")

\* C8: the ids of the n returned transactions are exactly 1..n, and the
\* transaction with id j is the one parsed from the j-th line, in text order,
\* that became a transaction: skipped and failing lines consume no id.
C8_IdsSequential ==
  Extracted =>
    LET src == yielding_from(extracted_text, 1, FALSE)
    IN  /\ Len(transactions) = Len(src)
        /\ {transactions[i].id : i \in 1..Len(transactions)} = 1..Len(transactions)
        /\ \A i \in 1..Len(transactions) :
             [transactions[i] EXCEPT !.id = 0]
               = line_steps[extracted_text[src[transactions[i].id]]].try.transaction

\* C8 witness: two transactions returned in the reverse of their parse
\* order, the one with id 2 before the one with id 1.
C8_Witness ==
  /\ Extracted
  /\ Len(transactions) = 2
  /\ transactions[1].id = 2
  /\ transactions[2].id = 1

\* the description matches a Notes rule that precedes the amount rule
EarlierNoteRule(t) ==
  LET d == lower(t.Description)
  IN  \/ Contains(d, "zelle")
      \/ Contains(d, "transfer") /\ Contains(d, "from")
      \/ Contains(d, "recurring")
      \/ Contains(d, "payrol")

HighValue(t) == abs(t.Amount) > Dollars(4000)

\* C9: every transaction of a result with |Amount| > 4000 has
\* Flagged.is_high_value true, a reason naming the 4000 threshold and Notes
\* containing "flagged for high amount", whatever its description.
C9_HighValueFlaggedAndNoted ==
  Returned =>
    \A i \in 1..Len(statement_data.Transaction_Detail) :
      LET t == statement_data.Transaction_Detail[i]
      IN  HighValue(t) =>
            /\ t.Flagged.is_high_value
            /\ Contains(t.Flagged.reason, "4000")
            /\ Contains(t.Notes, "flagged for high amount")

\* C9 (amended): every such transaction has Flagged.is_high_value true and
\* a reason naming the 4000 threshold; its Notes contains "flagged for high
\* amount" unless its description contains zelle, transfer and from,
\* recurring or payrol, whose note comes first.
C9_HighValueFlagged ==
  Returned =>
    \A i \in 1..Len(statement_data.Transaction_Detail) :
      LET t == statement_data.Transaction_Detail[i]
      IN  HighValue(t) =>
            /\ t.Flagged.is_high_value
            /\ Contains(t.Flagged.reason, "4000")
            /\ ~EarlierNoteRule(t) => Contains(t.Notes, "flagged for high amount")

\* C9 witness: a withdrawal of 4500.00 is flagged and noted.
C9_Witness ==
  /\ Returned
  /\ \E i \in 1..Len(statement_data.Transaction_Detail) :
       LET t == statement_data.Transaction_Detail[i]
       IN  /\ t.Amount = -Dollars(4500)
           /\ t.Flagged.is_high_value
           /\ Contains(t.Notes, "flagged for high amount")

\* the upload is structurally invalid: no .pdf name, or no bytes
InvalidRequest ==
  ~endswith(request.filename, ".pdf") \/ Len(request.content) = 0

\* C10: an upload whose name does not end in .pdf or whose content is empty
\* is answered 400 without process_statement being invoked; a failure
\* inside the core is answered with another status and its description.
C10_InvalidRequestIs400 ==
  pc = "responded" =>
    IF InvalidRequest
    THEN /\ response.status_code = 400
         /\ extracted_text = <<>> /\ output_path = <<>>
    ELSE "status_code" \in DOMAIN response =>
           /\ response.status_code # 400
           /\ Contains(response.detail, "Failed to process statement: ")

\* C11: whenever a line of the table was skipped because it failed to parse,
\* the returned result records it: parsing_errors or unprocessed_sections is
\* non-empty, or all_transactions_processed is false.
C11_ParseMissReported ==
  (Returned /\ BadPositions(extracted_text) # {}) =>
    \/ statement_data.error_tracking.parsing_errors # <<>>
    \/ statement_data.error_tracking.unprocessed_sections # <<>>
    \/ ~statement_data.metadata.validation_details.all_transactions_processed

\* C12: in every returned result Total_Deposits = Recurring_Deposits +
\* One_Off_Deposits, Total_Withdrawals = Recurring_Withdrawals +
\* Irregular_Withdrawals, Net_Change = Total_Deposits + Total_Withdrawals =
\* the sum of all Amounts, Total_Deposits >= 0 and Total_Withdrawals <= 0.
C12_TotalsAddUp ==
  Returned =>
    LET t == statement_data.Total_Transactions
    IN  /\ t.Total_Deposits = t.Recurring_Deposits + t.One_Off_Deposits
        /\ t.Total_Withdrawals = t.Recurring_Withdrawals + t.Irregular_Withdrawals
        /\ t.Net_Change = t.Total_Deposits + t.Total_Withdrawals
        /\ t.Net_Change = sum(Amounts(statement_data.Transaction_Detail))
        /\ t.Total_Deposits >= 0
        /\ t.Total_Withdrawals <= 0

\* C12 witness: a result with a recurring deposit and an irregular
\* withdrawal, neither side zero.
C12_Witness ==
  /\ Returned
  /\ statement_data.Total_Transactions.Recurring_Deposits > 0
  /\ statement_data.Total_Transactions.Irregular_Withdrawals < 0
  /\ statement_data.Total_Transactions.Net_Change # 0

\* the positions of the lines that start with "Ending Balance" and come
\* after a "TRANSACTION DETAIL" line
EndingPositions(text) ==
  {k \in 1..Len(text) : InTable(text, k) /\ startswith(strip(text[k]), "Ending Balance")}

\* the text up to its first in-table "Ending Balance" line
UpToEnding(text) ==
  IF EndingPositions(text) = {} THEN text ELSE SubSeq(text, 1, SetMin(EndingPositions(text)))

\* C13: the extractor stops consuming at the first "Ending Balance" line of
\* the table: no later line is turned into a transaction, so what
\* extract_transactions does on the text is what it does on the text cut
\* after that line.
C13_StopsAtEndingBalance ==
  LET cut == extract_transactions(UpToEnding(extracted_text))
  IN  /\ Extracted => (~cut.raised /\ transactions = cut.value)
      /\ (pc = "responded" /\ raised # None /\ totals = None) => cut.raised

\* the positions of the lines that contain the label and an amount
\* _extract_amount can read
LabelPositions(text, label) ==
  {k \in 1..Len(text) :
     Contains(strip(text[k]), label) /\ _extract_amount(strip(text[k])).ok}

\* the amount on the first line that contains the label
FirstAmount(text, label) ==
  _extract_amount(strip(text[SetMin(LabelPositions(text, label))])).val

\* extract_summary has just returned
Summarised == pc = "extract_transactions"

\* C14: each figure of the summary is taken from the first line containing
\* its label: when several lines carry the label with different amounts the
\* field is the amount of the first of them.
C14_SummaryTakesFirstLine ==
  Summarised =>
    /\ LabelPositions(extracted_text, "Beginning Balance") # {} =>
         summary.Beginning_Balance = FirstAmount(extracted_text, "Beginning Balance")
    /\ LabelPositions(extracted_text, "Deposits and Additions") # {} =>
         summary.Deposits_and_Additions = FirstAmount(extracted_text, "Deposits and Additions")
    /\ LabelPositions(extracted_text, "Electronic Withdrawals") # {} =>
         summary.Electronic_Withdrawals = FirstAmount(extracted_text, "Electronic Withdrawals")
    /\ LabelPositions(extracted_text, "Ending Balance") # {} =>
         summary.Ending_Balance = FirstAmount(extracted_text, "Ending Balance")

\* a line of at least 4 tokens whose first token is a 4-digit MMDD with
\* 1 <= MM <= 12 and 1 <= DD <= 31 and whose last two tokens are numeric
IsSlashlessLine(raw) ==
  LET parts == split(strip(raw))
  IN  /\ Len(parts) >= 4
      /\ Len(parts[1]) = 4 /\ isdigit(parts[1])
      /\ int(SubSeq(parts[1], 1, 2)).val \in 1..12
      /\ int(SubSeq(parts[1], 3, 4)).val \in 1..31
      /\ money(parts[Len(parts)]).ok /\ money(parts[Len(parts) - 1]).ok

\* the lines of the alphabet that are such lines
SlashlessLines == {raw \in LinePool : IsSlashlessLine(raw)}

\* the in-table MMDD lines of the text
SlashlessPositions(text) ==
  {k \in 1..Len(text) : text[k] \in SlashlessLines /\ InTable(text, k)}

\* extract_transactions has been called and has returned or raised
ExtractionDone ==
  \/ Extracted
  \/ pc = "responded" /\ raised # None /\ totals = None

\* C15: an in-table line dated in the MMDD form becomes a Transaction and
\* extract_transactions returns normally with it in its output, as for the
\* MM/DD form.
C15_SlashlessDateAccepted ==
  (ExtractionDone /\ SlashlessPositions(extracted_text) # {}) =>
    /\ raised = None
    /\ \A k \in SlashlessPositions(extracted_text) :
         \E i \in 1..Len(transactions) :
            transactions[i].Date = split(strip(extracted_text[k]))[1]

RECURSIVE FirstNote(_)
\* the note of the first rule of the list that matches, "" when none does
FirstNote(rules) ==
  IF Len(rules) = 0 THEN ""
  ELSE IF Head(rules).when THEN Head(rules).note ELSE FirstNote(Tail(rules))

\* the Notes rule of a keyword, for the lower-cased description d of a
\* transaction of the given category
KeywordNote(d, category, keyword) ==
  CASE keyword = "zelle" ->
         [when |-> Contains(d, "zelle"), note |-> "Matched with Zelle transfer description."]
    [] keyword = "transfer" ->
         [when |-> Contains(d, "transfer") /\ Contains(d, "from"),
          note |-> "Internal transfer to checking account."]
    [] keyword = "recurring" ->
         [when |-> Contains(d, "recurring"),
          note |-> "Recurring " \o lower(category) \o " payment."]
    [] keyword = "payrol" ->
         [when |-> Contains(d, "payrol"), note |-> "Direct deposit from employer."]
    [] keyword = "turo" ->
         [when |-> Contains(d, "turo"), note |-> "Car rental income from Turo."]
    [] keyword = "premium" ->
         [when |-> Contains(d, "premium"),
          note |-> "Subscription payment for "
                     \o join(SubSeq(split(d), 1, IF Len(split(d)) < 2 THEN Len(split(d)) ELSE 2), " ")
                     \o "."]

\* the Notes rule keyed on the magnitude of the amount
AmountNote(t) ==
  [when |-> abs(t.Amount) > Dollars(1000), note |-> t.Category \o " flagged for high amount."]

\* the lines of the alphabet that become a transaction when in the table
TransactionLines ==
  {raw \in LinePool : line_steps[raw].kind = "candidate"
                        /\ line_steps[raw].try.outcome = "append"}

\* the transaction's Description, Category and Amount are those parsed from
\* the line
ParsedFrom(t, raw) ==
  /\ t.Description = line_steps[raw].try.transaction.Description
  /\ t.Category = line_steps[raw].try.transaction.Category
  /\ t.Amount = line_steps[raw].try.transaction.Amount

\* the rules of a transaction in the order zelle, transfer and from,
\* recurring, payrol, turo, premium, |Amount| > 1000
KeywordsThenAmount(t) ==
  LET d == lower(t.Description)
      c == t.Category
  IN  <<KeywordNote(d, c, "zelle"), KeywordNote(d, c, "transfer"),
        KeywordNote(d, c, "recurring"), KeywordNote(d, c, "payrol"),
        KeywordNote(d, c, "turo"), KeywordNote(d, c, "premium"), AmountNote(t)>>

\* the rules of a transaction in the order zelle, transfer and from,
\* recurring, payrol, |Amount| > 1000, turo, premium
AmountBeforeTuro(t) ==
  LET d == lower(t.Description)
      c == t.Category
  IN  <<KeywordNote(d, c, "zelle"), KeywordNote(d, c, "transfer"),
        KeywordNote(d, c, "recurring"), KeywordNote(d, c, "payrol"),
        AmountNote(t), KeywordNote(d, c, "turo"), KeywordNote(d, c, "premium")>>

\* the first matching note, in either order, of the transaction of every
\* line of the alphabet, evaluated once
NoteKeywordsThenAmount ==
  [raw \in TransactionLines |-> FirstNote(KeywordsThenAmount(line_steps[raw].try.transaction))]

NoteAmountBeforeTuro ==
  [raw \in TransactionLines |-> FirstNote(AmountBeforeTuro(line_steps[raw].try.transaction))]

\* the annotation loop has just written Notes
Annotated == pc = "_validate_balances"

\* C16: Notes is the note of the first matching rule in the order zelle,
\* transfer and from, recurring, payrol, turo, premium, |Amount| > 1000, and
\* "" when none matches: a keyword's note wins whatever the amount.
C16_NotesKeywordsBeforeAmount ==
  Annotated =>
    \A i \in 1..Len(transactions) :
      \E raw \in TransactionLines :
         /\ ParsedFrom(transactions[i], raw)
         /\ transactions[i].Notes = NoteKeywordsThenAmount[raw]

\* C16 (amended): Notes is the note of the first matching rule in the order
\* zelle, transfer and from, recurring, payrol, |Amount| > 1000, turo,
\* premium, and "" when none matches: the amount rule comes before turo and
\* premium.
C16_NotesAmountBeforeTuro ==
  Annotated =>
    \A i \in 1..Len(transactions) :
      \E raw \in TransactionLines :
         /\ ParsedFrom(transactions[i], raw)
         /\ transactions[i].Notes = NoteAmountBeforeTuro[raw]

\* C16 witness: a result in which a zelle description above 1000 has the
\* Zelle note and a turo description above 1000 has the high-amount note.
C16_Witness ==
  /\ Returned
  /\ \E i, j \in 1..Len(statement_data.Transaction_Detail) :
       LET t == statement_data.Transaction_Detail[i]
           u == statement_data.Transaction_Detail[j]
       IN  /\ t.Notes = "Matched with Zelle transfer description."
           /\ abs(t.Amount) > Dollars(1000)
           /\ u.Notes = "Car Rental flagged for high amount."
           /\ u.Description = "TURO"

\* the last stage of parse_statement_text, the reconciliation, has just
\* completed: the clock has not moved since
StagesCompleted == pc = "StatementData"

\* C17: the end instant of metadata.processing_duration is taken after
\* every stage has completed: the stamped duration is at least the time from
\* start_time to the completion of the last stage.
C17_DurationCoversPipeline ==
  StagesCompleted => metadata.processing_duration >= now - start_time

\* the fields of a transaction that extract_transactions sets
Core(t) ==
  [id |-> t.id, Date |-> t.Date, Description |-> t.Description,
   Transaction_Type |-> t.Transaction_Type, Category |-> t.Category,
   Amount |-> t.Amount, Balance |-> t.Balance]

\* those fields of every transaction of a list, in the order of the list
CoreOf(ts) == [i \in 1..Len(ts) |-> Core(ts[i])]

\* extract_transactions has returned and a later stage may have run
AfterExtraction ==
  \/ pc \in {"_flag_transactions", "_analyze_recurring_transactions",
             "_calculate_spending_analysis", "enhance", "_validate_balances",
             "StatementData", "_save_statement_json"}
  \/ pc = "responded" /\ totals # None

\* C18: after extract_transactions has returned its list no later stage
\* changes a transaction's id, Date, Description, Transaction_Type, Category,
\* Amount or Balance, nor the length or order of the list: in the list the
\* stages work on, and in the result, these are as extract_transactions
\* returned them.
C18_CoreFieldsFramed ==
  AfterExtraction =>
    /\ CoreOf(transactions) = CoreOf(extract_transactions(extracted_text).value)
    /\ Returned =>
         CoreOf(statement_data.Transaction_Detail)
           = CoreOf(extract_transactions(extracted_text).value)

\* C18 witness: a result of two transactions in which the later stages have
\* written Flagged, Category_Confidence and Notes.
C18_Witness ==
  /\ Returned
  /\ Len(statement_data.Transaction_Detail) = 2
  /\ \E i \in 1..2 :
       /\ statement_data.Transaction_Detail[i].Flagged.is_high_value
       /\ statement_data.Transaction_Detail[i].Notes # ""
       /\ statement_data.Transaction_Detail[i].Category_Confidence # 0

\* the positions of the lines that contain "TRANSACTION DETAIL"
HeaderPositions(text) == {k \in 1..Len(text) : Contains(text[k], "TRANSACTION DETAIL")}

\* the positions, after the first "TRANSACTION DETAIL" line, of the lines
\* that fit the transaction-line grammar
TablePositions(text) ==
  {k \in 1..Len(text) : text[k] \in TransactionLines /\ InTable(text, k)}

\* C19: the table is entered only by a line containing "TRANSACTION DETAIL"
\* and is never left: every line after the first such line that fits the
\* grammar yields a transaction, no line before it and no such line itself
\* yields one, and a text without such a line yields the empty list.
C19_TableEnteredByHeader ==
  ExtractionDone =>
    /\ raised # None => TablePositions(extracted_text) # {}
    /\ Extracted =>
         /\ Len(transactions) = Cardinality(TablePositions(extracted_text))
         /\ \A i \in 1..Len(transactions) :
              \E k \in TablePositions(extracted_text) :
                 [transactions[i] EXCEPT !.id = 0]
                   = line_steps[extracted_text[k]].try.transaction
         /\ HeaderPositions(extracted_text) = {} => transactions = <<>>

\* C19 witness: a line that fits the grammar stands before the
\* "TRANSACTION DETAIL" line and another after it; only the second is
\* returned.
C19_Witness ==
  /\ Extracted
  /\ Len(extracted_text) = 3
  /\ extracted_text[1] \in TransactionLines
  /\ HeaderPositions(extracted_text) = {2}
  /\ extracted_text[3] \in TransactionLines
  /\ extracted_text[3] # extracted_text[1]
  /\ Len(transactions) = 1
  /\ [transactions[1] EXCEPT !.id = 0] = line_steps[extracted_text[3]].try.transaction

\* no line of the text has anything the metadata extractor looks for
NothingMatches(text) ==
  \A k \in 1..Len(text) :
     /\ ~Contains(text[k], "Account Number")
     /\ ~Contains(text[k], "through")

\* the value is part of some line of the text
InText(text, value) == \E k \in 1..Len(text) : Contains(text[k], value)

\* the value is the two-digit number of a month whose name is in the text
MonthInText(text, value) ==
  \E m \in 1..12 : value = zfill2(m) /\ InText(text, month_names[m])

\* _extract_statement_metadata has returned
MetadataExtracted == metadata # None

\* C20: the metadata extractor leaves every unresolved field empty: for a
\* text in which nothing matches, bank_name, account_number, year and month
\* are all ""; for any text each of them is "" or a value matched from the
\* text.
C20_UnmatchedMetadataEmpty ==
  MetadataExtracted =>
    /\ NothingMatches(extracted_text) =>
         /\ metadata.bank_name = "" /\ metadata.account_number = ""
         /\ metadata.year = "" /\ metadata.month = ""
    /\ metadata.bank_name = "" \/ InText(extracted_text, metadata.bank_name)
    /\ metadata.account_number = "" \/ InText(extracted_text, metadata.account_number)
    /\ metadata.year = "" \/ InText(extracted_text, metadata.year)
    /\ metadata.month = "" \/ MonthInText(extracted_text, metadata.month)

\* a line that has the literal "$5,993.00" and otherwise fits the
\* transaction-line grammar: at least 4 tokens, a valid date first, numeric
\* amount and balance
IsNoiseLine(raw) ==
  LET parts == split(strip(raw))
  IN  /\ Contains(raw, "$5,993.00")
      /\ Len(parts) >= 4
      /\ _is_valid_date(parts[1])
      /\ money(parts[Len(parts)]).ok /\ money(parts[Len(parts) - 1]).ok

\* the lines of the alphabet that are such lines
NoiseLines == {raw \in LinePool : IsNoiseLine(raw)}

\* the in-table noise lines of the text
NoisePositions(text) == {k \in 1..Len(text) : text[k] \in NoiseLines /\ InTable(text, k)}

\* C21: an in-table line containing "$5,993.00" never yields a transaction,
\* although it fits the grammar: it is dropped without raising and without
\* consuming an id, so what extract_transactions does on the text is what it
\* does on the text without that line, and the ids returned are 1..n.
C21_NoiseLiteralDropped ==
  ExtractionDone =>
    \A k \in NoisePositions(extracted_text) :
      LET without == extract_transactions(WithoutLine(extracted_text, k))
      IN  IF Extracted
          THEN /\ ~without.raised /\ without.value = transactions
               /\ {transactions[i].id : i \in 1..Len(transactions)} = 1..Len(transactions)
          ELSE without.raised

\* C21 witness: a transaction was returned, with id 1, from the line that
\* follows a dropped "$5,993.00" line of the table.
C21_Witness ==
  /\ Extracted
  /\ Len(extracted_text) = 3
  /\ NoisePositions(extracted_text) = {2}
  /\ extracted_text[3] \in TransactionLines
  /\ Len(transactions) = 1
  /\ transactions[1].id = 1

====
